---- MODULE Spec2Model ----
(***************************************************************************)
(* Model of the encrypted local secret store of stomata-web3               *)
(* (providers/key_encryption): name validation, path construction, the     *)
(* password-based encryption envelope, and the file-backed operations      *)
(* store_key / retrieve_key / list_keys / delete_key / key_exists, each    *)
(* broken into the filesystem accesses it performs so that concurrent      *)
(* callers interleave as they can on a real filesystem.                    *)
(***************************************************************************)
EXTENDS Integers, Sequences, FiniteSets, TLC

VARIABLES
    files,      \* path -> [ino, content, mode]: the regular files that exist
    dirs,       \* path -> mode: the directories that exist
    now,        \* clock read by chrono::Utc::now(); also counts the calls made
    pc,         \* per caller: position inside the running operation
    op,         \* per caller: operation being run
    arg,        \* per caller: [name, payload, password] of the call
    loc,        \* per caller: locals (encrypted, key_path, fd)
    result,     \* per caller: value returned by the last completed call
    pre,        \* per caller: storage as it was when the call started (history)
    committed,  \* name -> what a store_key that returned Ok left on disk (history)
    deleted,    \* names some delete_key has removed (history)
    vt,         \* validation harness: [stage, name, res, path]
    ct,         \* encryption harness: [stage, payload, password, rec, field, pw2, out]
    app,        \* the terminal application: App {render, tab_index, current_page, ui_state}
    run,        \* core_feature::run: [pc, terminal, ret]
    collector,  \* SystemCollector.system_metrics and App.metrics_history
    ring        \* one Ring<u64, N>: [inner] plus the last call made on it (history)

vars == <<files, dirs, now, pc, op, arg, loc, result, pre, committed, deleted, vt, ct, app, run,
          collector, ring>>
storeVars == <<files, dirs, now, pc, op, arg, loc, result, pre, committed, deleted>>
uiVars == <<app, run, collector, ring>>

----------------------------------------------------------------------------
(* Bounds of the model *)

\* longest key name the validation harness enumerates
MaxNameLen == 3
\* calls issued in one behaviour of the store
MaxCalls == 3
\* longest payload the encryption harness enumerates
MaxPayloadLen == 1
\* calls issued in one behaviour of the store in which a record is replaced
MaxReplaceCalls == 5

----------------------------------------------------------------------------
(* Result values: Result<T, StorageError> and Option<T> *)

Ok(v) == [kind |-> "Ok", val |-> v]
Err(k, v) == [kind |-> k, val |-> v]
Some(v) == [kind |-> "Some", val |-> v]
None == [kind |-> "None", val |-> <<>>]
Panic == [kind |-> "Panic", val |-> <<>>]

----------------------------------------------------------------------------
(* Key names: strings over a small alphabet that holds both path           *)
(* separators and the dot.                                                 *)

Alphabet == {"a", "b", "/", "\\", "."}
AllNames == UNION {[1..n -> Alphabet] : n \in 0..MaxNameLen}

\* str::contains(pattern)
Contains(s, sub) ==
    \E i \in 1..(Len(s) - Len(sub) + 1) : SubSeq(s, i, i + Len(sub) - 1) = sub

\* str::starts_with(pattern)
StartsWith(s, sub) ==
    Len(s) >= Len(sub) /\ SubSeq(s, 1, Len(sub)) = sub

validate_key_name_NoDotDot(name) ==
    IF name = <<>> THEN Err("InvalidKeyName", "Key name cannot be empty")
    ELSE IF Contains(name, <<"/">>) \/ Contains(name, <<"\\">>)
        THEN Err("InvalidKeyName", "Key name cannot contain path separators")
    ELSE IF StartsWith(name, <<".">>)
        THEN Err("InvalidKeyName", "Key name cannot start with a dot")
    ELSE Ok(<<>>)

validate_key_name_NoSeparators(name) ==
    IF name = <<>> THEN Err("InvalidKeyName", "Key name cannot be empty")
    ELSE IF StartsWith(name, <<".">>)
        THEN Err("InvalidKeyName", "Key name cannot start with a dot")
    ELSE Ok(<<>>)

validate_key_name(name) ==
    IF name = <<>> THEN Err("InvalidKeyName", "Key name cannot be empty")
    ELSE IF Contains(name, <<"/">>) \/ Contains(name, <<"\\">>) \/ Contains(name, <<".", ".">>)
        THEN Err("InvalidKeyName", "Key name cannot contain path separators")
    ELSE IF StartsWith(name, <<".">>)
        THEN Err("InvalidKeyName", "Key name cannot start with a dot")
    ELSE Ok(<<>>)

----------------------------------------------------------------------------
(* Paths: a path is the sequence of its components from the root, each     *)
(* component a string (sequence of characters). PathBuf::join splits its   *)
(* argument at '/', and an argument that starts with '/' replaces the      *)
(* base. The operating system resolves "." and ".." when the path is used. *)

RECURSIVE SplitAt(_, _, _)
SplitAt(s, i, cur) ==
    IF i > Len(s) THEN <<cur>>
    ELSE IF s[i] = "/" THEN <<cur>> \o SplitAt(s, i + 1, <<>>)
    ELSE SplitAt(s, i + 1, Append(cur, s[i]))

Components(s) == SelectSeq(SplitAt(s, 1, <<>>), LAMBDA c : c # <<>>)

Join(base, rel) ==
    IF StartsWith(rel, <<"/">>) THEN Components(rel) ELSE base \o Components(rel)

RECURSIVE ResolveFrom(_, _, _)
ResolveFrom(p, i, acc) ==
    IF i > Len(p) THEN acc
    ELSE IF p[i] = <<".">> THEN ResolveFrom(p, i + 1, acc)
    ELSE IF p[i] = <<".", ".">>
        THEN ResolveFrom(p, i + 1, IF acc = <<>> THEN acc ELSE SubSeq(acc, 1, Len(acc) - 1))
    ELSE ResolveFrom(p, i + 1, Append(acc, p[i]))

Resolve(p) == ResolveFrom(p, 1, <<>>)

HomeDir == << <<"h", "o", "m", "e">> >>
get_storage_directory == Join(HomeDir, <<".", "s", "t", "o", "m", "a", "t", "a", "K", "e", "y", "s">>)
get_keys_dir == Join(get_storage_directory, <<"k", "e", "y", "s">>)
JsonExt == <<"j", "s", "o", "n">>

get_key_path(name) ==
    LET v == validate_key_name(name) IN
    IF v.kind # "Ok" THEN v
    ELSE Ok(Join(get_keys_dir, name \o <<".">> \o JsonExt))

Parent(p) == SubSeq(p, 1, Len(p) - 1)
FileName(p) == p[Len(p)]

----------------------------------------------------------------------------
(* Bytes and hex text. hex::encode writes two lowercase digits per byte;   *)
(* hex::decode accepts both cases and fails on an odd length or a          *)
(* character that is no hex digit.                                         *)

HexLower == <<"0", "1", "2", "3", "4", "5", "6", "7", "8", "9", "a", "b", "c", "d", "e", "f">>
HexUpper == <<"0", "1", "2", "3", "4", "5", "6", "7", "8", "9", "A", "B", "C", "D", "E", "F">>

RECURSIVE hex_encode(_)
hex_encode(bytes) ==
    IF bytes = <<>> THEN <<>>
    ELSE <<HexLower[(bytes[1] \div 16) + 1], HexLower[(bytes[1] % 16) + 1]>> \o hex_encode(Tail(bytes))

IsHexDigit(c) == \E i \in 1..16 : HexLower[i] = c \/ HexUpper[i] = c
HexVal(c) == (CHOOSE i \in 1..16 : HexLower[i] = c \/ HexUpper[i] = c) - 1

RECURSIVE HexPairs(_)
HexPairs(text) ==
    IF text = <<>> THEN <<>>
    ELSE <<HexVal(text[1]) * 16 + HexVal(text[2])>> \o HexPairs(Tail(Tail(text)))

hex_decode(text) ==
    IF Len(text) % 2 # 0 THEN Err("OddLength", <<>>)
    ELSE IF \E i \in 1..Len(text) : ~IsHexDigit(text[i]) THEN Err("InvalidHexCharacter", <<>>)
    ELSE Ok(HexPairs(text))

\* a byte array built element by element, as a sequence
Bytes(n, f(_)) == SubSeq([i \in 1..n |-> f(i)], 1, n)

RECURSIVE XorBits(_, _, _)
XorBits(a, b, k) ==
    IF k = 0 THEN 0
    ELSE ((a + b) % 2) + 2 * XorBits(a \div 2, b \div 2, k - 1)

Xor(a, b) == XorBits(a, b, 8)

RECURSIVE Pow2(_)
Pow2(k) == IF k = 0 THEN 1 ELSE 2 * Pow2(k - 1)

\* bytes with bit k (0..7) of byte i flipped
FlipBit(bytes, i, k) == Bytes(Len(bytes), LAMBDA j : IF j = i THEN Xor(bytes[j], Pow2(k)) ELSE bytes[j])

RECURSIVE WeightedSum(_, _)
WeightedSum(bytes, i) ==
    IF i > Len(bytes) THEN 0
    ELSE bytes[i] * (2 * i + 1) + WeightedSum(bytes, i + 1)

----------------------------------------------------------------------------
(* The primitives the code calls. Argon2id and AES-256-GCM are library     *)
(* code; each is modelled by a small stand-in with the same interface and  *)
(* the same shape: a deterministic key derivation that every byte of the   *)
(* salt and of the password enters, a counter-mode keystream, and a        *)
(* 16-byte tag over key, nonce and ciphertext body that decryption         *)
(* recomputes and compares. Lengths are those of the code.                 *)

SaltLen == 16
NonceLen == 12
KeyLen == 32
TagLen == 16
\* argon2: salts shorter than this are refused (hash_password_into returns Err)
MinSaltLen == 8

CipherId == "aes-256-gcm"

PwMix(password, i) == WeightedSum(Bytes(Len(password), LAMBDA j : password[j] * (i + j)), 1)

\* Argon2::default().hash_password_into(password, salt, &mut key).unwrap()
derive_key(password, salt) ==
    IF Len(salt) < MinSaltLen THEN Panic
    ELSE Some(Bytes(KeyLen, LAMBDA i :
            (salt[((i - 1) % Len(salt)) + 1] * (IF i > Len(salt) THEN 3 ELSE 1)
                + PwMix(password, i) + i) % 256))

KeyStream(key, nonce, i) ==
    (key[((i - 1) % KeyLen) + 1] + 3 * nonce[((i - 1) % NonceLen) + 1] + 7 * i) % 256

CtrXor(key, nonce, bytes) == Bytes(Len(bytes), LAMBDA i : Xor(bytes[i], KeyStream(key, nonce, i)))

Tag(key, nonce, body) ==
    LET sum == WeightedSum(body, 1) IN
    Bytes(TagLen, LAMBDA i :
        (key[i] + 2 * key[i + TagLen] + 5 * nonce[((i - 1) % NonceLen) + 1]
            + 7 * sum + 11 * Len(body) + i) % 256)

\* cipher.encrypt(Nonce::from_slice(&nonce), plaintext)
aead_encrypt(key, nonce, plaintext) ==
    LET body == CtrXor(key, nonce, plaintext) IN
    Ok(body \o Tag(key, nonce, body))

\* cipher.decrypt(Nonce::from_slice(&nonce), ciphertext): from_slice asserts the length
aead_decrypt(key, nonce, ciphertext) ==
    IF Len(nonce) # NonceLen THEN Panic
    ELSE IF Len(ciphertext) < TagLen THEN Err("aead::Error", <<>>)
    ELSE LET body == SubSeq(ciphertext, 1, Len(ciphertext) - TagLen)
             tag == SubSeq(ciphertext, Len(ciphertext) - TagLen + 1, Len(ciphertext))
         IN  IF Tag(key, nonce, body) # tag THEN Err("aead::Error", <<>>)
             ELSE Ok(CtrXor(key, nonce, body))

----------------------------------------------------------------------------
(* encrypt_private_key / decrypt_private_key. The two random::<[u8; N]>()  *)
(* draws of encrypt_private_key are its salt and nonce parameters.         *)

encrypt_private_key(pk, password, salt, nonce) ==
    LET key == derive_key(password, salt) IN
    IF key.kind = "Panic" THEN Panic
    ELSE LET c == aead_encrypt(key.val, nonce, pk) IN
         IF c.kind # "Ok" THEN None
         ELSE Some([crypto_key |-> [cipher |-> CipherId,
                                    salt |-> hex_encode(salt),
                                    nonce |-> hex_encode(nonce),
                                    ciphertext |-> hex_encode(c.val)],
                    metadata |-> None])

decrypt_private_key_SaltAsNonce(data, password) ==
    LET salt == hex_decode(data.crypto_key.salt)
        nonce == hex_decode(data.crypto_key.salt)
        ciphertext == hex_decode(data.crypto_key.ciphertext)
    IN  IF salt.kind # "Ok" THEN None
        ELSE IF nonce.kind # "Ok" THEN None
        ELSE IF ciphertext.kind # "Ok" THEN None
        ELSE LET key == derive_key(password, salt.val) IN
             IF key.kind = "Panic" THEN Panic
             ELSE LET r == aead_decrypt(key.val, nonce.val, ciphertext.val) IN
                  IF r.kind = "Panic" THEN Panic
                  ELSE IF r.kind = "Ok" THEN Some(r.val)
                  ELSE None

decrypt_private_key_UnwrapOrDefault(data, password) ==
    LET salt == hex_decode(data.crypto_key.salt)
        nonce == hex_decode(data.crypto_key.nonce)
        ciphertext == hex_decode(data.crypto_key.ciphertext)
    IN  IF salt.kind # "Ok" THEN None
        ELSE IF nonce.kind # "Ok" THEN None
        ELSE IF ciphertext.kind # "Ok" THEN None
        ELSE LET key == derive_key(password, salt.val) IN
             IF key.kind = "Panic" THEN Panic
             ELSE LET r == aead_decrypt(key.val, nonce.val, ciphertext.val) IN
                  IF r.kind = "Panic" THEN Panic
                  ELSE IF r.kind = "Ok" THEN Some(r.val)
                  ELSE Some(<<>>)

decrypt_private_key(data, password) ==
    LET salt == hex_decode(data.crypto_key.salt)
        nonce == hex_decode(data.crypto_key.nonce)
        ciphertext == hex_decode(data.crypto_key.ciphertext)
    IN  IF salt.kind # "Ok" THEN None
        ELSE IF nonce.kind # "Ok" THEN None
        ELSE IF ciphertext.kind # "Ok" THEN None
        ELSE LET key == derive_key(password, salt.val) IN
             IF key.kind = "Panic" THEN Panic
             ELSE LET r == aead_decrypt(key.val, nonce.val, ciphertext.val) IN
                  IF r.kind = "Panic" THEN Panic
                  ELSE IF r.kind = "Ok" THEN Some(r.val)
                  ELSE None

----------------------------------------------------------------------------
(* The on-disk record: serde_json::to_string_pretty / from_str. The text   *)
(* is modelled as its sequence of tokens; a file that holds only a prefix  *)
(* of them (or none) does not parse.                                       *)

Digits == <<"0", "1", "2", "3", "4", "5", "6", "7", "8", "9">>

RECURSIVE to_rfc3339(_)
to_rfc3339(t) ==
    IF t < 10 THEN <<Digits[t + 1]>> ELSE to_rfc3339(t \div 10) \o <<Digits[(t % 10) + 1]>>

to_string_pretty(rec) ==
    << <<"{">>, <<"crypto_key">>, <<rec.crypto_key.cipher>>, rec.crypto_key.salt,
       rec.crypto_key.nonce, rec.crypto_key.ciphertext, <<"metadata">> >>
    \o (IF rec.metadata.kind = "None" THEN << <<"null">> >>
        ELSE << rec.metadata.val.name, rec.metadata.val.created_at >>)
    \o << <<"}">> >>

from_str(json) ==
    IF /\ Len(json) \in {9, 10}
       /\ json[1] = <<"{">> /\ json[2] = <<"crypto_key">> /\ Len(json[3]) = 1
       /\ json[7] = <<"metadata">> /\ json[Len(json)] = <<"}">>
       /\ (Len(json) = 9 => json[8] = <<"null">>)
    THEN Ok([crypto_key |-> [cipher |-> json[3][1], salt |-> json[4],
                             nonce |-> json[5], ciphertext |-> json[6]],
             metadata |-> IF Len(json) = 9 THEN None
                          ELSE Some([name |-> json[8], created_at |-> json[9]])])
    ELSE Err("SerdeError", "malformed record")

----------------------------------------------------------------------------
(* The filesystem. A file is an inode (ino) reached through its path; a    *)
(* writer holds the inode it opened, so data written after the path was    *)
(* removed is lost, and opening an existing file truncates it in place.    *)

Mode700 == "0o700"
Mode600 == "0o600"
DefaultMode == "umask default"

PathExists(p) == Resolve(p) \in DOMAIN files \/ Resolve(p) \in DOMAIN dirs

Prefixes(p) == {SubSeq(p, 1, n) : n \in 0..Len(p)}

\* fs::create_dir_all(path): creates every missing ancestor; succeeds if all exist
create_dir_all(d, p) ==
    [q \in DOMAIN d \cup Prefixes(Resolve(p)) |-> IF q \in DOMAIN d THEN d[q] ELSE DefaultMode]

\* what a write of `new` at offset 0 leaves in a file that held `old`
Overlay(new, old) ==
    new \o (IF Len(old) > Len(new) THEN SubSeq(old, Len(new) + 1, Len(old)) ELSE <<>>)

\* Path::extension / Path::file_stem of a file name
LastDot(s) == IF \E i \in 2..Len(s) : s[i] = "." THEN CHOOSE i \in 2..Len(s) : s[i] = "." /\ \A j \in (i + 1)..Len(s) : s[j] # "." ELSE 0
Extension(s) == IF LastDot(s) = 0 THEN None ELSE Some(SubSeq(s, LastDot(s) + 1, Len(s)))
FileStem(s) == IF LastDot(s) = 0 THEN s ELSE SubSeq(s, 1, LastDot(s) - 1)

\* fs::read_dir(dir): the entries of dir; the order in which the filesystem
\* yields them is not specified, so every order is possible
Orders(S) == {o \in [1..Cardinality(S) -> S] : \A i, j \in 1..Cardinality(S) : i # j => o[i] # o[j]}

read_dir(f, d, dir) == Orders({q \in DOMAIN f \cup DOMAIN d : q # <<>> /\ Parent(q) = dir})

\* byte order of strings, as Vec<String>::sort uses
CharCode(c) ==
    CASE c = "." -> 46 [] c = "/" -> 47 [] c = "\\" -> 92 [] c = "a" -> 97 [] c = "b" -> 98 [] OTHER -> 127

RECURSIVE StrLess(_, _)
StrLess(s, t) ==
    IF s = <<>> THEN t # <<>>
    ELSE IF t = <<>> THEN FALSE
    ELSE IF CharCode(s[1]) # CharCode(t[1]) THEN CharCode(s[1]) < CharCode(t[1])
    ELSE StrLess(Tail(s), Tail(t))

RECURSIVE InsertSorted(_, _)
InsertSorted(x, sorted) ==
    IF sorted = <<>> THEN <<x>>
    ELSE IF StrLess(sorted[1], x) THEN <<sorted[1]>> \o InsertSorted(x, Tail(sorted))
    ELSE <<x>> \o sorted

Sort_Unsorted(keys) == keys

RECURSIVE Sort(_)
Sort(keys) == IF keys = <<>> THEN <<>> ELSE InsertSorted(keys[1], Sort(Tail(keys)))

\* the loop of list_keys over the directory entries, then keys.sort()
RECURSIVE CollectKeys(_)
CollectKeys(entries) ==
    IF entries = <<>> THEN <<>>
    ELSE LET ext == Extension(FileName(entries[1])) IN
         (IF ext.kind = "Some" /\ ext.val = JsonExt THEN <<FileStem(FileName(entries[1]))>> ELSE <<>>)
         \o CollectKeys(Tail(entries))

----------------------------------------------------------------------------
(* Callers and the inputs they draw. *)

Procs == {"p1", "p2"}

Passwords == {<<112, 119>>, <<120>>}
Payloads == {<<>>, <<222, 173>>}
RandSalts == {Bytes(SaltLen, LAMBDA i : (b + 17 * i) % 256) : b \in {3, 200}}
RandNonces == {Bytes(NonceLen, LAMBDA i : (b + 29 * i) % 256) : b \in {5}}

\* inputs of the sequential caller: two valid names, one that would escape the
\* directory and one that would be a hidden file
SeqInputs == [names |-> {<<"a">>, <<"b">>, <<".", ".", "/", ".", ".", "/", "a">>, <<".", "a">>},
              payloads |-> Payloads, passwords |-> Passwords, salts |-> RandSalts, calls |-> MaxCalls]
\* inputs of the concurrent callers
ConcInputs == [names |-> {<<"a">>, <<"b">>},
               payloads |-> Payloads, passwords |-> {<<120>>}, salts |-> {Bytes(SaltLen, LAMBDA i : (3 + 17 * i) % 256)},
               calls |-> MaxCalls]
\* inputs of the caller that replaces a record: one name, stored, deleted and stored again
ReplaceInputs == [names |-> {<<"a">>},
                  payloads |-> Payloads, passwords |-> Passwords, salts |-> RandSalts, calls |-> MaxReplaceCalls]

NoLocals == [encrypted |-> None, key_path |-> <<>>, json |-> <<>>, fd |-> 0]
NoArg == [name |-> <<>>, payload |-> <<>>, password |-> <<>>]
Snapshot == [files |-> files, dirs |-> dirs]

\* a file of the user's that is no part of the store
OutsideFile == HomeDir \o << <<"a", ".", "j", "s", "o", "n">> >>
OutsideContent == << <<"not a key">> >>

\* no call made yet
CallersIdle ==
    /\ now = 0
    /\ pc = [p \in Procs |-> "idle"]
    /\ op = [p \in Procs |-> "none"]
    /\ arg = [p \in Procs |-> NoArg]
    /\ loc = [p \in Procs |-> NoLocals]
    /\ result = [p \in Procs |-> None]
    /\ pre = [p \in Procs |-> [files |-> <<>>, dirs |-> <<>>]]
    /\ committed = <<>>
    /\ deleted = {}

StoreInit ==
    /\ files = [q \in {OutsideFile} |-> [ino |-> 0, content |-> OutsideContent, mode |-> DefaultMode]]
    /\ dirs = [q \in Prefixes(HomeDir) |-> DefaultMode]
    /\ CallersIdle

Return(p, r) ==
    /\ pc' = [pc EXCEPT ![p] = "done"]
    /\ result' = [result EXCEPT ![p] = r]

Goto(p, label) ==
    /\ pc' = [pc EXCEPT ![p] = label]
    /\ UNCHANGED result

----------------------------------------------------------------------------
(* A caller starts an operation. The statements of the operation that      *)
(* touch nothing shared run with its first step: store_key encrypts,       *)
(* the others compute the key path (and so validate the name).             *)

Begin(p, o, a) ==
    /\ pc[p] \in {"idle", "done"}
    /\ now' = now + 1
    /\ op' = [op EXCEPT ![p] = o]
    /\ arg' = [arg EXCEPT ![p] = a]
    /\ pre' = [pre EXCEPT ![p] = Snapshot]
    /\ UNCHANGED <<files, dirs, committed, deleted, vt, ct, uiVars>>

\* encrypt_private_key on the inputs the callers draw, evaluated once
EncryptedTable ==
    {<<x, encrypt_private_key(x[1], x[2], x[3], x[4])>> :
        x \in Payloads \X Passwords \X RandSalts \X RandNonces}
Encrypted(pk, w, salt, nonce) == (CHOOSE e \in EncryptedTable : e[1] = <<pk, w, salt, nonce>>)[2]

\* store_key: encrypt_private_key(private_key, password).ok_or_else(..)?
CallStore(p, in) ==
    \E n \in in.names, pk \in in.payloads, w \in in.passwords, salt \in in.salts, nonce \in RandNonces :
        LET encrypted == Encrypted(pk, w, salt, nonce) IN
        /\ Begin(p, "store_key", [name |-> n, payload |-> pk, password |-> w])
        /\ loc' = [loc EXCEPT ![p] = [NoLocals EXCEPT !.encrypted = encrypted]]
        /\ IF encrypted.kind = "Some" THEN Goto(p, "init_exists")
           ELSE Return(p, Err("IoError", "Encryption failed"))

\* retrieve_key / delete_key / key_exists: get_key_path(name)?
CallNamed(p, o, first, in) ==
    \E n \in in.names, w \in (IF o = "retrieve_key" THEN in.passwords ELSE {<<>>}) :
        LET key_path == get_key_path(n) IN
        /\ Begin(p, o, [name |-> n, payload |-> <<>>, password |-> w])
        /\ IF key_path.kind = "Ok"
           THEN /\ loc' = [loc EXCEPT ![p] = [NoLocals EXCEPT !.key_path = key_path.val]]
                /\ Goto(p, first)
           ELSE /\ loc' = [loc EXCEPT ![p] = NoLocals]
                /\ Return(p, key_path)

\* list_keys: get_keys_dir()?
CallList(p) ==
    /\ Begin(p, "list_keys", NoArg)
    /\ loc' = [loc EXCEPT ![p] = NoLocals]
    /\ Goto(p, "list_exists")

CallWith(p, in) ==
    /\ pc[p] \in {"idle", "done"}
    /\ now < in.calls
    /\ \/ CallStore(p, in)
       \/ CallNamed(p, "retrieve_key", "load_exists", in)
       \/ CallNamed(p, "delete_key", "delete_exists", in)
       \/ CallNamed(p, "key_exists", "key_exists", in)
       \/ CallList(p)

Call(p) == CallWith(p, ConcInputs)
SeqCall(p) == CallWith(p, SeqInputs)
ReplaceCall(p) == CallWith(p, ReplaceInputs)

----------------------------------------------------------------------------
(* init_storage, as save_encrypted_key runs it first. *)

\* what save_encrypted_key does once init_storage has returned Ok: get_key_path(name)?
AfterInit(p) ==
    LET key_path == get_key_path(arg[p].name) IN
    IF key_path.kind = "Ok"
    THEN /\ loc' = [loc EXCEPT ![p].key_path = key_path.val]
         /\ Goto(p, "save_exists")
    ELSE /\ UNCHANGED loc
         /\ Return(p, key_path)

\* if !keys_dir.exists()
InitStorageExists(p) ==
    /\ pc[p] = "init_exists"
    /\ IF PathExists(get_keys_dir)
       THEN AfterInit(p)
       ELSE Goto(p, "init_create") /\ UNCHANGED loc
    /\ UNCHANGED <<files, dirs, now, op, arg, pre, committed, deleted, vt, ct, uiVars>>

\* fs::create_dir_all(&keys_dir)?
InitStorageCreate(p) ==
    /\ pc[p] = "init_create"
    /\ dirs' = create_dir_all(dirs, get_keys_dir)
    /\ Goto(p, "init_chmod")
    /\ UNCHANGED <<files, now, op, arg, loc, pre, committed, deleted, vt, ct, uiVars>>

\* fs::set_permissions(&keys_dir, 0o700)?
InitStorageChmod(p) ==
    /\ pc[p] = "init_chmod"
    /\ IF get_keys_dir \in DOMAIN dirs
       THEN /\ dirs' = [dirs EXCEPT ![get_keys_dir] = Mode700]
            /\ AfterInit(p)
       ELSE /\ UNCHANGED <<dirs, loc>>
            /\ Return(p, Err("IoError", "NotFound"))
    /\ UNCHANGED <<files, now, op, arg, pre, committed, deleted, vt, ct, uiVars>>

----------------------------------------------------------------------------
(* save_encrypted_key after init_storage. *)

Put(f, k, v) == [x \in DOMAIN f \cup {k} |-> IF x = k THEN v ELSE f[x]]
Remove(f, k) == [x \in DOMAIN f \ {k} |-> f[x]]

Max(S) == CHOOSE x \in S : \A y \in S : y <= x
NextIno == 1 + Max({0} \cup {files[q].ino : q \in DOMAIN files} \cup {loc[p].fd : p \in Procs})

WithMeta_KeepInput(encrypted, name, t) ==
    [crypto_key |-> encrypted.crypto_key, metadata |-> encrypted.metadata]

\* EncryptPrivateKey { crypto_key: encrypted.crypto_key.clone(), metadata: Some(KeyMetadata {..}) }
WithMeta(encrypted, name, t) ==
    [crypto_key |-> encrypted.crypto_key,
     metadata |-> Some([name |-> name, created_at |-> to_rfc3339(t)])]

SaveExists_NoCheck(p) ==
    /\ pc[p] = "save_exists"
    /\ loc' = [loc EXCEPT ![p].json =
                to_string_pretty(WithMeta(loc[p].encrypted.val, arg[p].name, now))]
    /\ Goto(p, "write_open")
    /\ UNCHANGED <<files, dirs, now, op, arg, pre, committed, deleted, vt, ct, uiVars>>

\* if key_path.exists() { return Err(KeyAlreadyExists) }; build the record; serialize it
SaveExists(p) ==
    /\ pc[p] = "save_exists"
    /\ IF PathExists(loc[p].key_path)
       THEN /\ Return(p, Err("KeyAlreadyExists", arg[p].name))
            /\ UNCHANGED loc
       ELSE /\ loc' = [loc EXCEPT ![p].json =
                        to_string_pretty(WithMeta(loc[p].encrypted.val, arg[p].name, now))]
            /\ Goto(p, "write_open")
    /\ UNCHANGED <<files, dirs, now, op, arg, pre, committed, deleted, vt, ct, uiVars>>

\* fs::write(&key_path, json)?, first half: open with create and truncate
SaveWriteOpen(p) ==
    LET path == Resolve(loc[p].key_path) IN
    /\ pc[p] = "write_open"
    /\ IF path = <<>> \/ Parent(path) \notin DOMAIN dirs \/ path \in DOMAIN dirs
       THEN /\ Return(p, Err("IoError", "NotFound"))
            /\ UNCHANGED <<files, loc>>
       ELSE IF path \in DOMAIN files
       THEN /\ files' = [files EXCEPT ![path].content = <<>>]
            /\ loc' = [loc EXCEPT ![p].fd = files[path].ino]
            /\ Goto(p, "write_data")
       ELSE /\ files' = Put(files, path, [ino |-> NextIno, content |-> <<>>, mode |-> DefaultMode])
            /\ loc' = [loc EXCEPT ![p].fd = NextIno]
            /\ Goto(p, "write_data")
    /\ UNCHANGED <<dirs, now, op, arg, pre, committed, deleted, vt, ct, uiVars>>

\* fs::write(&key_path, json)?, second half: write_all through the open file
SaveWriteData(p) ==
    /\ pc[p] = "write_data"
    /\ files' = [q \in DOMAIN files |->
                    IF files[q].ino = loc[p].fd
                    THEN [files[q] EXCEPT !.content = Overlay(loc[p].json, files[q].content)]
                    ELSE files[q]]
    /\ loc' = [loc EXCEPT ![p].fd = 0]
    /\ Goto(p, "save_chmod")
    /\ UNCHANGED <<dirs, now, op, arg, pre, committed, deleted, vt, ct, uiVars>>

\* fs::set_permissions(&key_path, 0o600)?; Ok(())
SaveChmod(p) ==
    LET path == Resolve(loc[p].key_path) IN
    /\ pc[p] = "save_chmod"
    /\ IF path \in DOMAIN files
       THEN /\ files' = [files EXCEPT ![path].mode = Mode600]
            /\ committed' = Put(committed, arg[p].name,
                                [content |-> files[path].content,
                                 payload |-> arg[p].payload,
                                 password |-> arg[p].password])
            /\ Return(p, Ok(<<>>))
       ELSE /\ UNCHANGED <<files, committed>>
            /\ Return(p, Err("IoError", "NotFound"))
    /\ UNCHANGED <<dirs, now, op, arg, loc, pre, deleted, vt, ct, uiVars>>

----------------------------------------------------------------------------
(* retrieve_key: load_encrypted_key, then decrypt_private_key. *)

LoadExists_NoCheck(p) ==
    /\ pc[p] = "load_exists"
    /\ Goto(p, "load_read")
    /\ UNCHANGED <<files, dirs, now, op, arg, loc, pre, committed, deleted, vt, ct, uiVars>>

\* if !key_path.exists() { return Err(KeyNotFound) }
LoadExists(p) ==
    /\ pc[p] = "load_exists"
    /\ IF PathExists(loc[p].key_path)
       THEN Goto(p, "load_read")
       ELSE Return(p, Err("KeyNotFound", arg[p].name))
    /\ UNCHANGED <<files, dirs, now, op, arg, loc, pre, committed, deleted, vt, ct, uiVars>>

Decode_ParseErrorAsKeyNotFound(json, password) ==
    LET encrypted == from_str(json) IN
    IF encrypted.kind # "Ok" THEN Err("KeyNotFound", <<>>)
    ELSE LET plain == decrypt_private_key(encrypted.val, password) IN
         IF plain.kind = "Some" THEN Ok(plain.val)
         ELSE IF plain.kind = "None" THEN Err("IoError", "InvalidData")
         ELSE Panic

\* what retrieve_key returns for the text read from the file
Decode(json, password) ==
    LET encrypted == from_str(json) IN
    IF encrypted.kind # "Ok" THEN encrypted
    ELSE LET plain == decrypt_private_key(encrypted.val, password) IN
         IF plain.kind = "Some" THEN Ok(plain.val)
         ELSE IF plain.kind = "None" THEN Err("IoError", "InvalidData")
         ELSE Panic

\* the io::ErrorKind of reading a path that is no regular file
ReadErrorKind(path) == IF path \in DOMAIN dirs THEN "IsADirectory" ELSE "NotFound"

\* fs::read_to_string(&key_path)?; serde_json::from_str(&json)?; decrypt_private_key(..)
LoadRead(p) ==
    LET path == Resolve(loc[p].key_path) IN
    /\ pc[p] = "load_read"
    /\ IF path \notin DOMAIN files
       THEN Return(p, Err("IoError", ReadErrorKind(path)))
       ELSE LET r == Decode(files[path].content, arg[p].password) IN
            IF r.kind = "Panic"
            THEN pc' = [pc EXCEPT ![p] = "panicked"] /\ result' = [result EXCEPT ![p] = r]
            ELSE Return(p, r)
    /\ UNCHANGED <<files, dirs, now, op, arg, loc, pre, committed, deleted, vt, ct, uiVars>>

----------------------------------------------------------------------------
(* delete_key, key_exists, list_keys. *)

DeleteExists_Silent(p) ==
    /\ pc[p] = "delete_exists"
    /\ IF PathExists(loc[p].key_path)
       THEN Goto(p, "delete_remove")
       ELSE Return(p, Ok(<<>>))
    /\ UNCHANGED <<files, dirs, now, op, arg, loc, pre, committed, deleted, vt, ct, uiVars>>

\* if !key_path.exists() { return Err(KeyNotFound) }
DeleteExists(p) ==
    /\ pc[p] = "delete_exists"
    /\ IF PathExists(loc[p].key_path)
       THEN Goto(p, "delete_remove")
       ELSE Return(p, Err("KeyNotFound", arg[p].name))
    /\ UNCHANGED <<files, dirs, now, op, arg, loc, pre, committed, deleted, vt, ct, uiVars>>

DeleteRemove_Wipe(p) ==
    /\ pc[p] = "delete_remove"
    /\ files' = [q \in {x \in DOMAIN files : Parent(x) # get_keys_dir} |-> files[q]]
    /\ committed' = Remove(committed, arg[p].name)
    /\ deleted' = deleted \cup {arg[p].name}
    /\ Return(p, Ok(<<>>))
    /\ UNCHANGED <<dirs, now, op, arg, loc, pre, vt, ct, uiVars>>

\* fs::remove_file(&key_path)?; Ok(())
DeleteRemove(p) ==
    LET path == Resolve(loc[p].key_path) IN
    /\ pc[p] = "delete_remove"
    /\ IF path \in DOMAIN files
       THEN /\ files' = Remove(files, path)
            /\ committed' = Remove(committed, arg[p].name)
            /\ deleted' = deleted \cup {arg[p].name}
            /\ Return(p, Ok(<<>>))
       ELSE /\ UNCHANGED <<files, committed, deleted>>
            /\ Return(p, Err("IoError", "NotFound"))
    /\ UNCHANGED <<dirs, now, op, arg, loc, pre, vt, ct, uiVars>>

KeyExists_InitStorage(p) ==
    /\ pc[p] = "key_exists"
    /\ dirs' = [q \in DOMAIN create_dir_all(dirs, get_keys_dir) |->
                    IF q = get_keys_dir THEN Mode700 ELSE create_dir_all(dirs, get_keys_dir)[q]]
    /\ Return(p, Ok(PathExists(loc[p].key_path)))
    /\ UNCHANGED <<files, now, op, arg, loc, pre, committed, deleted, vt, ct, uiVars>>

\* Ok(key_path.exists())
KeyExists(p) ==
    /\ pc[p] = "key_exists"
    /\ Return(p, Ok(PathExists(loc[p].key_path)))
    /\ UNCHANGED <<files, dirs, now, op, arg, loc, pre, committed, deleted, vt, ct, uiVars>>

\* if !keys_dir.exists() { return Ok(Vec::new()) }
ListExists(p) ==
    /\ pc[p] = "list_exists"
    /\ IF PathExists(get_keys_dir)
       THEN Goto(p, "list_read")
       ELSE Return(p, Ok(<<>>))
    /\ UNCHANGED <<files, dirs, now, op, arg, loc, pre, committed, deleted, vt, ct, uiVars>>

\* for entry in fs::read_dir(keys_dir)? { .. }; keys.sort(); Ok(keys)
ListRead(p) ==
    /\ pc[p] = "list_read"
    /\ IF get_keys_dir \in DOMAIN dirs
       THEN \E entries \in read_dir(files, dirs, get_keys_dir) :
                Return(p, Ok(Sort(CollectKeys(entries))))
       ELSE Return(p, Err("IoError", "NotFound"))
    /\ UNCHANGED <<files, dirs, now, op, arg, loc, pre, committed, deleted, vt, ct, uiVars>>

----------------------------------------------------------------------------
(* The terminal application of stomata-cli: App, its key handling, its     *)
(* drawing, and the loop of core_feature::run around them. The process     *)
(* list a draw fetches from the system is an input of the draw.            *)

\* Page and Page::SingleProcess(pid)
Page(name) == [page |-> name, pid |-> 0]
SingleProcess(pid) == [page |-> "SingleProcess", pid |-> pid]

\* Page::titles()
titles == <<"System", "Metrics", "Processes", "Network">>

\* Page::from_index(index), index counted from 0
from_index(index) == IF index \in 0..3 THEN Page(titles[index + 1]) ELSE Page("System")

\* UIState::default().process_table
ProcessTableDefault == [selected |-> Some(0), process_count |-> 0, selected_pid |-> None]

\* App::new(store_metrics)
AppNew(store_metrics) ==
    [render |-> TRUE, tab_index |-> 0, current_page |-> Page("System"),
     store_data |-> store_metrics, process_table |-> ProcessTableDefault]

next_tab(a) ==
    LET i == (a.tab_index + 1) % Len(titles) IN
    [a EXCEPT !.tab_index = i, !.current_page = from_index(i)]

previous_tab_NoWrap(a) ==
    LET i == IF a.tab_index > 0 THEN a.tab_index - 1 ELSE 0 IN
    [a EXCEPT !.tab_index = i, !.current_page = from_index(i)]

previous_tab(a) ==
    LET i == IF a.tab_index > 0 THEN a.tab_index - 1 ELSE Len(titles) - 1 IN
    [a EXCEPT !.tab_index = i, !.current_page = from_index(i)]

KeyCodes == {"q", "Right", "Tab", "Left", "1", "2", "3", "4", "Down", "Up", "Enter", "x"}
KeyKinds == {"Press", "Release"}

process_global_events(a, code) ==
    CASE code = "q" -> [a EXCEPT !.render = FALSE]
      [] code \in {"Right", "Tab"} -> next_tab(a)
      [] code = "Left" -> previous_tab(a)
      [] code = "1" -> [a EXCEPT !.tab_index = 0, !.current_page = Page("System")]
      [] code = "2" -> [a EXCEPT !.tab_index = 1, !.current_page = Page("Metrics")]
      [] code = "3" -> [a EXCEPT !.tab_index = 2, !.current_page = Page("Processes")]
      [] code = "4" -> [a EXCEPT !.tab_index = 3, !.current_page = Page("Network")]
      [] OTHER -> a

\* usize::saturating_sub and min
SaturatingSub(x, y) == IF x > y THEN x - y ELSE 0
Min(x, y) == IF x < y THEN x ELSE y

process_page_events(a, code) ==
    LET t == a.process_table
        max_processes == t.process_count
    IN  CASE code = "Down" /\ t.selected.kind = "Some" ->
                [a EXCEPT !.process_table.selected =
                    Some(Min(t.selected.val + 1, SaturatingSub(max_processes, 1)))]
          [] code = "Up" /\ t.selected.kind = "Some" ->
                [a EXCEPT !.process_table.selected = Some(SaturatingSub(t.selected.val, 1))]
          [] code = "Enter" /\ t.selected_pid.kind = "Some" ->
                [a EXCEPT !.current_page = SingleProcess(t.selected_pid.val)]
          [] OTHER -> a

handle_events(a, code, kind) ==
    IF kind # "Press" THEN a
    ELSE LET g == process_global_events(a, code) IN
         IF g.current_page.page = "Processes" THEN process_page_events(g, code) ELSE g

\* process lists (pids) the system may report at a draw
ProcessLists == {<<>>, <<7>>, <<7, 9>>, <<7, 9, 11>>}

\* App::render(frame): on the Processes page the fetched list sets process_count
\* and, through Vec<ProcessData>::display, selected_pid = self[selected_index].pid,
\* which panics when the index is past the end of the list
Draw(a, processes) ==
    IF a.current_page.page # "Processes" THEN Ok(a)
    ELSE LET t == a.process_table IN
         IF t.selected.kind = "Some" /\ t.selected.val >= Len(processes) THEN Panic
         ELSE Ok([a EXCEPT !.process_table.process_count = Len(processes),
                           !.process_table.selected_pid =
                                IF t.selected.kind = "Some"
                                THEN Some(processes[t.selected.val + 1]) ELSE @])

----------------------------------------------------------------------------
(* stomata-core: SystemCollector and the metrics history.                  *)
(* constants.rs is not among the sources, so MAX_HISTORY stands for        *)
(* whatever positive value the build gives it.                             *)

MAX_HISTORY == 2
MaxCollects == 4

MetricsCategory ==
    {"ProcessesWithoutTasks", "Processes", "ProcessWithPid", "Memory", "CPU",
     "AllResources", "Basic"}
CpuReadings == {0, 50}

SystemMetricsDefault == [timestamp |-> 0, cpu_usage |-> 0, processes |-> <<>>]

\* SystemCollector::new: the history starts empty, the single value defaulted.
SystemCollectorNew(store_history) ==
    IF store_history THEN [kind |-> "History", val |-> <<>>]
    ELSE [kind |-> "Single", val |-> SystemMetricsDefault]

\* App::new: the application's own storage of collected metrics.
MetricsStorageNew(store_metrics) ==
    IF store_metrics THEN [kind |-> "History", val |-> <<>>]
    ELSE [kind |-> "Single", val |-> SystemMetricsDefault]

get_running_processes(refresh_kind) ==
    IF refresh_kind \in {"ProcessesWithoutTasks", "Processes"} THEN <<7>> ELSE <<>>

\* SystemCollector::collect: builds the sample, stores it, returns it.
collect(system_metrics, refresh_kind, cpu_usage, clock) ==
    LET system_metric == [timestamp |-> clock, cpu_usage |-> cpu_usage,
                          processes |-> get_running_processes(refresh_kind)]
        sys_vec == system_metrics.val
    IN [system_metrics |->
            IF system_metrics.kind = "Single"
            THEN [system_metrics EXCEPT !.val = system_metric]
            ELSE [system_metrics EXCEPT !.val =
                     (IF Len(sys_vec) > MAX_HISTORY THEN Tail(sys_vec) ELSE sys_vec)
                         \o <<system_metric>>],
        ret |-> Ok(system_metric)]

\* App::update_metrics: collects, then stores the sample in the App as well.
update_metrics(c, refresh_category, cpu_usage) ==
    LET r == collect(c.system_metrics, refresh_category, cpu_usage, c.collects + 1)
        history == c.metrics_history.val
    IN [c EXCEPT !.system_metrics = r.system_metrics,
                 !.collects = @ + 1,
                 !.metrics_history =
                     IF r.ret.kind # "Ok" THEN @
                     ELSE IF @.kind = "Single" THEN [@ EXCEPT !.val = r.ret.val]
                     ELSE [@ EXCEPT !.val =
                              (IF Len(history) >= MAX_HISTORY THEN Tail(history)
                               ELSE history) \o <<r.ret.val>>]]

CollectorIdle ==
    [pc |-> "none", system_metrics |-> SystemCollectorNew(FALSE),
     metrics_history |-> MetricsStorageNew(FALSE), collects |-> 0, before |-> <<>>]

CollectorNew ==
    /\ collector.pc = "none"
    /\ \E store_history \in BOOLEAN, store_metrics \in BOOLEAN :
          collector' = [CollectorIdle EXCEPT
                           !.pc = "ready",
                           !.system_metrics = SystemCollectorNew(store_history),
                           !.metrics_history = MetricsStorageNew(store_metrics)]
    /\ UNCHANGED <<storeVars, vt, ct, app, run, ring>>

Collect ==
    /\ collector.pc = "ready"
    /\ collector.collects < MaxCollects
    /\ \E refresh_kind \in MetricsCategory, cpu_usage \in CpuReadings :
          collector' =
              [collector EXCEPT
                  !.system_metrics =
                      collect(@, refresh_kind, cpu_usage, collector.collects + 1).system_metrics,
                  !.collects = @ + 1,
                  !.before = IF collector.system_metrics.kind = "History"
                             THEN collector.system_metrics.val ELSE <<>>]
    /\ UNCHANGED <<storeVars, vt, ct, app, run, ring>>

UpdateMetrics ==
    /\ collector.pc = "ready"
    /\ collector.collects < MaxCollects
    /\ \E refresh_category \in MetricsCategory, cpu_usage \in CpuReadings :
          collector' =
              [update_metrics(collector, refresh_category, cpu_usage) EXCEPT
                  !.before = IF collector.system_metrics.kind = "History"
                             THEN collector.system_metrics.val ELSE <<>>]
    /\ UNCHANGED <<storeVars, vt, ct, app, run, ring>>

----------------------------------------------------------------------------
(* stomata-cli: Ring<T, N>, the fixed-capacity buffer of the network view. *)
(* CLAMP_TREND_VALUE is declared in constants.rs, which is not among the   *)
(* sources: the model runs the buffer under several fractions, one of      *)
(* them above 1, where the percentile index leaves the slice.              *)

RingN == 3
MaxPushes == 5
RingValues == {1, 5, 9}
ClampValues ==
    {[num |-> 0, den |-> 1], [num |-> 1, den |-> 2], [num |-> 9, den |-> 10],
     [num |-> 1, den |-> 1], [num |-> 3, den |-> 2]}

\* Ring::push
push_NoEvict(inner, value) == inner \o <<value>>

push(inner, value) ==
    (IF Len(inner) = RingN THEN Tail(inner) ELSE inner) \o <<value>>

\* f64::round of a non-negative fraction a/b: halves round away from zero.
Round(a, b) == (2 * a + b) \div (2 * b)

\* slice::select_nth_unstable: the element a sorted slice has at `index`;
\* panics when the index is not one of the slice.
select_nth_unstable(data, index) ==
    IF index >= Len(data) THEN Panic
    ELSE Ok(CHOOSE v \in {data[i] : i \in DOMAIN data} :
               /\ Cardinality({i \in DOMAIN data : data[i] < v}) <= index
               /\ Cardinality({i \in DOMAIN data : data[i] <= v}) > index)

\* Ring::push_clamped
push_clamped(inner, value, clamp) ==
    IF inner = <<>> THEN Ok(push(inner, value))
    ELSE LET data == inner \o <<value>>
             p_index == Round((Len(data) - 1) * clamp.num, clamp.den)
             p_val == select_nth_unstable(data, p_index)
         IN IF p_val.kind = "Panic" THEN Panic
            ELSE LET clamped == IF value > p_val.val THEN p_val.val ELSE value
                 IN Ok(push(inner, clamped))

RingIdle ==
    [pc |-> "none", inner |-> <<>>, clamp |-> [num |-> 1, den |-> 1],
     last |-> "none", given |-> 0, prev |-> <<>>, pushes |-> 0]

\* Ring::new, in a build with one of the clamp fractions.
RingNew ==
    /\ ring.pc = "none"
    /\ \E c \in ClampValues : ring' = [RingIdle EXCEPT !.pc = "ready", !.clamp = c]
    /\ UNCHANGED <<storeVars, vt, ct, app, run, collector>>

RingCall(call, value, inner) ==
    ring' = [ring EXCEPT !.inner = inner, !.last = call, !.given = value,
                         !.prev = ring.inner, !.pushes = @ + 1]

RingPush ==
    /\ ring.pc = "ready"
    /\ ring.pushes < MaxPushes
    /\ \E value \in RingValues : RingCall("push", value, push(ring.inner, value))
    /\ UNCHANGED <<storeVars, vt, ct, app, run, collector>>

RingPushClamped ==
    /\ ring.pc = "ready"
    /\ ring.pushes < MaxPushes
    /\ \E value \in RingValues :
          LET r == push_clamped(ring.inner, value, ring.clamp)
          IN IF r.kind = "Panic" THEN ring' = [ring EXCEPT !.pc = "panicked"]
             ELSE RingCall("push_clamped", value, r.val)
    /\ UNCHANGED <<storeVars, vt, ct, app, run, collector>>

AppIdle == [AppNew(FALSE) EXCEPT !.render = FALSE]
RunIdle == [pc |-> "idle", terminal |-> FALSE, key |-> "none", ret |-> None]
UiIdle == app = AppIdle /\ run = RunIdle /\ collector = CollectorIdle /\ ring = RingIdle

\* run(cli, terminal): match terminal { Some(_) => App::new(cli.store).., None => Ok(false) }
RunCall ==
    /\ run.pc = "idle"
    /\ \E terminal \in BOOLEAN, store \in BOOLEAN :
          IF terminal
          THEN /\ app' = AppNew(store)
               /\ run' = [run EXCEPT !.pc = "loop", !.terminal = TRUE]
          ELSE /\ run' = [run EXCEPT !.pc = "returned", !.ret = Ok(FALSE)]
               /\ UNCHANGED app
    /\ UNCHANGED <<storeVars, vt, ct, collector, ring>>

\* the process lists of one draw, or of two draws in a row
DrawLists == {<<l>> : l \in ProcessLists} \cup {<<l, m>> : l \in ProcessLists, m \in ProcessLists}

Drawn(a, lists) ==
    LET first == Draw(a, lists[1]) IN
    IF first.kind # "Ok" \/ Len(lists) = 1 THEN first ELSE Draw(first.val, lists[2])

AfterDraw(d, code) ==
    IF d.kind = "Ok"
    THEN app' = d.val /\ run' = [run EXCEPT !.key = code]
    ELSE run' = [run EXCEPT !.pc = "panicked", !.key = code, !.ret = Panic] /\ UNCHANGED app

\* one turn of the loop in which a key event arrived: handle_events, draw, and
\* the draw of the refresh interval if it has elapsed as well
RunKey ==
    /\ run.pc = "loop"
    /\ app.render
    /\ \E code \in KeyCodes, kind \in KeyKinds, lists \in DrawLists :
          AfterDraw(Drawn(handle_events(app, code, kind), lists),
                    IF kind = "Press" THEN code ELSE run.key)
    /\ UNCHANGED <<storeVars, vt, ct, collector, ring>>

\* one turn of the loop in which only the refresh interval elapsed
RunTick ==
    /\ run.pc = "loop"
    /\ app.render
    /\ \E processes \in ProcessLists : AfterDraw(Draw(app, processes), run.key)
    /\ UNCHANGED <<storeVars, vt, ct, collector, ring>>

\* event::poll, event::read or terminal.draw returned an error: `?` returns it
RunFail ==
    /\ run.pc = "loop"
    /\ app.render
    /\ run' = [run EXCEPT !.pc = "returned", !.ret = Err("Error", "io")]
    /\ UNCHANGED <<storeVars, vt, ct, app, collector, ring>>

\* while app.render { .. } is left; Ok(app.render)
RunReturn ==
    /\ run.pc = "loop"
    /\ ~app.render
    /\ run' = [run EXCEPT !.pc = "returned", !.ret = Ok(app.render)]
    /\ UNCHANGED <<storeVars, vt, ct, app, collector, ring>>

----------------------------------------------------------------------------
(* Specifications. *)

Step(p) ==
    \/ InitStorageExists(p)
    \/ InitStorageCreate(p)
    \/ InitStorageChmod(p)
    \/ SaveExists(p)
    \/ SaveWriteOpen(p)
    \/ SaveWriteData(p)
    \/ SaveChmod(p)
    \/ LoadExists(p)
    \/ LoadRead(p)
    \/ DeleteExists(p)
    \/ DeleteRemove(p)
    \/ KeyExists(p)
    \/ ListExists(p)
    \/ ListRead(p)

VtIdle == [stage |-> "idle", name |-> <<>>, res |-> None, path |-> None]
CtIdle == [stage |-> "idle", payload |-> <<>>, password |-> <<>>, rec |-> None,
           field |-> "none", pw2 |-> <<>>, out |-> None]

\* callers interleaved step by step
Init == StoreInit /\ vt = VtIdle /\ ct = CtIdle /\ UiIdle
Next == \E p \in Procs : Call(p) \/ Step(p)
Spec == Init /\ [][Next]_vars

\* one caller, each call run to completion before the next starts
SeqNext == SeqCall("p1") \/ Step("p1")
SeqSpec == Init /\ [][SeqNext]_vars

\* one caller working on one name, long enough to store, delete, store again and read
ReplaceNext == ReplaceCall("p1") \/ Step("p1")
ReplaceSpec == Init /\ [][ReplaceNext]_vars

----------------------------------------------------------------------------
(* Validation harness: one name drawn from AllNames, validated, and its    *)
(* path computed.                                                          *)

VInit ==
    /\ StoreInit
    /\ ct = CtIdle
    /\ UiIdle
    /\ \E n \in AllNames : vt = [stage |-> "new", name |-> n, res |-> None, path |-> None]

Validate ==
    /\ vt.stage = "new"
    /\ vt' = [vt EXCEPT !.stage = "validated", !.res = validate_key_name(vt.name)]
    /\ UNCHANGED <<storeVars, ct, uiVars>>

GetPath ==
    /\ vt.stage = "validated"
    /\ vt' = [vt EXCEPT !.stage = "pathed", !.path = get_key_path(vt.name)]
    /\ UNCHANGED <<storeVars, ct, uiVars>>

ValidateNext == Validate \/ GetPath
ValidateSpec == VInit /\ [][ValidateNext]_vars

----------------------------------------------------------------------------
(* Encryption harness: a payload and a password are encrypted with fresh   *)
(* salt and nonce; one bit of one field of the record may then be flipped  *)
(* (as the tests corrupt a record: decode, change, encode); the record is  *)
(* then decrypted with some password.                                      *)

PayloadBytes == {0, 222}
CPayloads == UNION {[1..n -> PayloadBytes] : n \in 0..MaxPayloadLen}
CNonces == {Bytes(NonceLen, LAMBDA i : (b + 29 * i) % 256) : b \in {5, 130}}
Fields == {"salt", "nonce", "ciphertext"}

CInit ==
    /\ StoreInit
    /\ vt = VtIdle
    /\ UiIdle
    /\ \E pk \in CPayloads, w \in Passwords :
          ct = [CtIdle EXCEPT !.stage = "new", !.payload = pk, !.password = w]

CEncrypt ==
    /\ ct.stage = "new"
    /\ \E salt \in RandSalts, nonce \in CNonces :
          ct' = [ct EXCEPT !.stage = "encrypted",
                           !.rec = encrypt_private_key(ct.payload, ct.password, salt, nonce)]
    /\ UNCHANGED <<storeVars, vt, uiVars>>

\* bytes[i] ^= 1 << k on the decoded field, then hex::encode
Corrupt(rec, f, i, k) ==
    [rec EXCEPT !.crypto_key[f] = hex_encode(FlipBit(hex_decode(@).val, i, k))]

CTamper ==
    /\ ct.stage = "encrypted"
    /\ ct.rec.kind = "Some"
    /\ \E f \in Fields :
        \E i \in 1..(Len(ct.rec.val.crypto_key[f]) \div 2), k \in 0..7 :
          ct' = [ct EXCEPT !.stage = "tampered", !.field = f,
                           !.rec = Some(Corrupt(ct.rec.val, f, i, k))]
    /\ UNCHANGED <<storeVars, vt, uiVars>>

CDecrypt ==
    /\ ct.stage \in {"encrypted", "tampered"}
    /\ ct.rec.kind = "Some"
    /\ \E w \in Passwords :
          ct' = [ct EXCEPT !.stage = "decrypted", !.pw2 = w,
                           !.out = decrypt_private_key(ct.rec.val, w)]
    /\ UNCHANGED <<storeVars, vt, uiVars>>

CryptoNext == CEncrypt \/ CTamper \/ CDecrypt
CryptoSpec == CInit /\ [][CryptoNext]_vars

----------------------------------------------------------------------------
(* The store started on a keys directory that already holds something at   *)
(* the path of key "a": a record file whose text was cut short or edited   *)
(* (empty, a prefix of a record, no record at all, a record whose salt,    *)
(* nonce or ciphertext is no hex text or hex of another length), a genuine *)
(* record, or a directory. One caller then reads, lists and deletes.       *)

Genuine ==
    encrypt_private_key(<<222, 173>>, <<120>>,
                        Bytes(SaltLen, LAMBDA i : (3 + 17 * i) % 256),
                        Bytes(NonceLen, LAMBDA i : (5 + 29 * i) % 256)).val

WithField(rec, f, text) == [rec EXCEPT !.crypto_key[f] = text]

ForeignRecords ==
    {Genuine,
     WithField(Genuine, "salt", <<"z", "z">>),
     WithField(Genuine, "salt", hex_encode(<<1, 2, 3, 4>>)),
     WithField(Genuine, "salt", <<>>),
     WithField(Genuine, "nonce", SubSeq(Genuine.crypto_key.nonce, 1, 2 * NonceLen - 2)),
     WithField(Genuine, "nonce", <<"0">>),
     WithField(Genuine, "ciphertext", <<"x", "y">>),
     WithField(Genuine, "ciphertext", SubSeq(Genuine.crypto_key.ciphertext, 1, 8))}

ForeignContents ==
    {to_string_pretty(r) : r \in ForeignRecords}
    \cup {<<>>, SubSeq(to_string_pretty(Genuine), 1, 4), << <<"not json">> >>}

LoadInputs == [names |-> {<<"a">>, <<"b">>}, payloads |-> {}, passwords |-> Passwords, salts |-> {},
               calls |-> MaxCalls]

LInit ==
    /\ \/ \E c \in ForeignContents :
             /\ files = [q \in {OutsideFile, get_keys_dir \o << <<"a", ".", "j", "s", "o", "n">> >>} |->
                            IF q = OutsideFile
                            THEN [ino |-> 0, content |-> OutsideContent, mode |-> DefaultMode]
                            ELSE [ino |-> 1, content |-> c, mode |-> Mode600]]
             /\ dirs = [q \in Prefixes(get_keys_dir) |-> IF q = get_keys_dir THEN Mode700 ELSE DefaultMode]
       \/ /\ files = [q \in {OutsideFile} |-> [ino |-> 0, content |-> OutsideContent, mode |-> DefaultMode]]
          /\ dirs = [q \in Prefixes(get_keys_dir \o << <<"a", ".", "j", "s", "o", "n">> >>) |->
                        IF q = get_keys_dir THEN Mode700 ELSE DefaultMode]
    /\ CallersIdle
    /\ vt = VtIdle
    /\ ct = CtIdle
    /\ UiIdle

LoadCall(p) ==
    /\ pc[p] \in {"idle", "done"}
    /\ now < LoadInputs.calls
    /\ \/ CallNamed(p, "retrieve_key", "load_exists", LoadInputs)
       \/ CallNamed(p, "delete_key", "delete_exists", LoadInputs)
       \/ CallNamed(p, "key_exists", "key_exists", LoadInputs)
       \/ CallList(p)

LoadStep(p) ==
    \/ LoadExists(p)
    \/ LoadRead(p)
    \/ DeleteExists(p)
    \/ DeleteRemove(p)
    \/ KeyExists(p)
    \/ ListExists(p)
    \/ ListRead(p)

LoadNext == LoadCall("p1") \/ LoadStep("p1")
LoadSpec == LInit /\ [][LoadNext]_vars

----------------------------------------------------------------------------
(* The terminal application on its own: one call of core_feature::run.     *)

AppNext == RunCall \/ RunKey \/ RunTick \/ RunFail \/ RunReturn
AppSpec == Init /\ [][AppNext]_vars

----------------------------------------------------------------------------
(* The collector on its own, and one ring buffer on its own.               *)

CollectorNext == CollectorNew \/ Collect \/ UpdateMetrics
CollectorSpec == Init /\ [][CollectorNext]_vars

RingNext == RingNew \/ RingPush \/ RingPushClamped
RingSpec == Init /\ [][RingNext]_vars

----------------------------------------------------------------------------
(* Properties. *)

\* the file the store is meant to keep for name n
KeyFile(n) == get_keys_dir \o <<n \o <<".">> \o JsonExt>>
Accepted(n) == validate_key_name(n).kind = "Ok"
Finished(p, o) == pc[p] = "done" /\ op[p] = o
ExistedAtCall(p) == Accepted(arg[p].name) /\ KeyFile(arg[p].name) \in DOMAIN pre[p].files
StorageAsAtCall(p) == files = pre[p].files /\ dirs = pre[p].dirs

\* C1: create-once. In a sequential history, a store_key called while a record
\* for the name exists returns KeyAlreadyExists(name) and leaves the storage as
\* it was; a store_key returns Ok only if no record for the name existed.
C1_CreateOnce ==
    \A p \in Procs : Finished(p, "store_key") =>
        /\ ExistedAtCall(p) =>
              /\ result[p].kind = "KeyAlreadyExists"
              /\ result[p].val = arg[p].name
              /\ StorageAsAtCall(p)
        /\ result[p].kind = "Ok" => ~ExistedAtCall(p)

C1_Witness ==
    \E p \in Procs :
        /\ Finished(p, "store_key") /\ ExistedAtCall(p)
        /\ result[p].kind = "KeyAlreadyExists"

\* C2: at-most-once creation under concurrency. When two callers have run
\* store_key for the same name and no delete of that name has happened, at most
\* one of the two calls returned Ok.
C2_AtMostOneCreate ==
    \A p, q \in Procs :
        (/\ p # q
         /\ Finished(p, "store_key") /\ Finished(q, "store_key")
         /\ arg[p].name = arg[q].name
         /\ arg[p].name \notin deleted)
        => ~(result[p].kind = "Ok" /\ result[q].kind = "Ok")

\* C3: record immutability. Once a store_key for a name has returned Ok, the
\* file of that name keeps the content it had at that return until a delete_key
\* removes it, under every interleaving of the operations.
C3_RecordImmutable ==
    \A n \in DOMAIN committed :
        /\ KeyFile(n) \in DOMAIN files
        /\ files[KeyFile(n)].content = committed[n].content

\* C4: name validation precedes every filesystem effect. A store_key,
\* retrieve_key, delete_key or key_exists called with a name that fails
\* validation returns InvalidKeyName and leaves files and directories (the
\* storage directory included) exactly as they were before the call.
C4_ValidationBeforeEffects ==
    \A p \in Procs :
        (/\ pc[p] = "done"
         /\ op[p] \in {"store_key", "retrieve_key", "delete_key", "key_exists"}
         /\ ~Accepted(arg[p].name))
        => /\ result[p].kind = "InvalidKeyName"
           /\ StorageAsAtCall(p)

\* the reference predicate of C5: empty, contains '/' or '\', contains "..",
\* or starts with '.'
RefRejected(name) ==
    \/ Len(name) = 0
    \/ \E i \in 1..Len(name) : name[i] = "/" \/ name[i] = "\\"
    \/ \E i \in 1..(Len(name) - 1) : name[i] = "." /\ name[i + 1] = "."
    \/ name[1] = "."

\* C5: validate_key_name returns InvalidKeyName exactly for the names the
\* reference predicate rejects, and Ok for every other name.
C5_ValidateMatchesReference ==
    vt.stage \in {"validated", "pathed"} =>
        vt.res.kind = (IF RefRejected(vt.name) THEN "InvalidKeyName" ELSE "Ok")

C5_Witness ==
    /\ vt.stage = "validated"
    /\ vt.name = <<"a", ".", ".">>
    /\ vt.res.kind = "InvalidKeyName"

\* every accepted name maps to the direct child <name>.json of the keys
\* directory, and distinct accepted names map to distinct files
PathsConfined ==
    /\ \A n \in AllNames : Accepted(n) =>
          /\ get_key_path(n) = Ok(KeyFile(n))
          /\ Resolve(KeyFile(n)) = KeyFile(n)
          /\ Parent(KeyFile(n)) = get_keys_dir
    /\ \A n, m \in AllNames :
          (Accepted(n) /\ Accepted(m) /\ n # m) => Resolve(KeyFile(n)) # Resolve(KeyFile(m))

\* C6: path confinement. Every accepted name maps to the direct child
\* <name>.json of the keys directory and no two accepted names share a file;
\* every path an operation holds is that child for its own name; and no file
\* outside the keys directory is created, changed or removed.
C6_PathConfinement ==
    /\ PathsConfined
    /\ \A p \in Procs : loc[p].key_path # <<>> =>
          /\ loc[p].key_path = KeyFile(arg[p].name)
          /\ Parent(Resolve(loc[p].key_path)) = get_keys_dir
    /\ \A q \in DOMAIN files : q # OutsideFile => Parent(q) = get_keys_dir
    /\ OutsideFile \in DOMAIN files
    /\ files[OutsideFile].content = OutsideContent

C6_Witness ==
    \E p \in Procs :
        /\ Finished(p, "delete_key")
        /\ arg[p].name = <<".", ".", "/", ".", ".", "/", "a">>
        /\ result[p].kind = "InvalidKeyName"
        /\ <<"a">> \in DOMAIN committed
        /\ KeyFile(<<"a">>) \in DOMAIN files

\* C7: store_key is all-or-nothing. A finished store_key either returned Ok and
\* the storage differs from the storage at the call by exactly the one new
\* record file, or returned an error and files and directories are as they
\* were at the call.
C7_AllOrNothing ==
    \A p \in Procs : Finished(p, "store_key") =>
        IF result[p].kind = "Ok"
        THEN /\ KeyFile(arg[p].name) \notin DOMAIN pre[p].files
             /\ DOMAIN files = DOMAIN pre[p].files \cup {KeyFile(arg[p].name)}
             /\ \A q \in DOMAIN pre[p].files : files[q] = pre[p].files[q]
             /\ from_str(files[KeyFile(arg[p].name)].content).kind = "Ok"
        ELSE StorageAsAtCall(p)

\* decrypt(encrypt(P, W), W) = P for every payload, password, salt and nonce drawn
PureRoundTrip ==
    \A pk \in CPayloads, w \in Passwords, salt \in RandSalts, nonce \in CNonces :
        LET d == decrypt_private_key(encrypt_private_key(pk, w, salt, nonce).val, w) IN
        d.kind = "Some" /\ d.val = pk

\* C8: round trip. Decrypting what encrypt_private_key produced, with the same
\* password, returns the payload (the empty payload included); and a
\* retrieve_key of a name whose store_key succeeded and that has not been
\* deleted since returns exactly the stored payload when given the password
\* of the store, whatever was done to other names in between.
C8_RoundTrip ==
    /\ PureRoundTrip
    /\ \A p \in Procs :
          (/\ Finished(p, "retrieve_key")
           /\ arg[p].name \in DOMAIN committed
           /\ committed[arg[p].name].password = arg[p].password)
          => /\ result[p].kind = "Ok"
             /\ result[p].val = committed[arg[p].name].payload

C8_Witness ==
    \E p \in Procs :
        /\ Finished(p, "retrieve_key")
        /\ arg[p].name = <<"a">>
        /\ DOMAIN committed = {<<"a">>, <<"b">>}
        /\ committed[<<"a">>].password = arg[p].password
        /\ result[p].kind = "Ok"
        /\ result[p].val = <<222, 173>>

\* decrypt(encrypt(P, W1), W2) fails for every W1 # W2
PureWrongPassword ==
    \A pk \in CPayloads, w1 \in Passwords, w2 \in Passwords, salt \in RandSalts, nonce \in CNonces :
        w1 # w2 =>
            decrypt_private_key(encrypt_private_key(pk, w1, salt, nonce).val, w2).kind = "None"

\* C9: wrong-password rejection. Decrypting what encrypt_private_key produced
\* with another password fails; and a retrieve_key given another password than
\* the one of the store returns an error, never a plaintext.
C9_WrongPasswordFails ==
    /\ PureWrongPassword
    /\ \A p \in Procs :
          (/\ Finished(p, "retrieve_key")
           /\ arg[p].name \in DOMAIN committed
           /\ committed[arg[p].name].password # arg[p].password)
          => /\ result[p].kind = "IoError"
             /\ result[p].val = "InvalidData"

C9_Witness ==
    \E p \in Procs :
        /\ Finished(p, "retrieve_key")
        /\ arg[p].name \in DOMAIN committed
        /\ committed[arg[p].name].password # arg[p].password
        /\ committed[arg[p].name].payload = <<222, 173>>
        /\ result[p].kind = "IoError"

\* C10: tamper detection. After one bit of the salt, of the nonce or of the
\* ciphertext (tag included) of a record made by encrypt_private_key is
\* flipped, decrypt_private_key with the password of the encryption fails.
C10_TamperDetected ==
    (ct.stage = "decrypted" /\ ct.field # "none" /\ ct.pw2 = ct.password)
        => ct.out.kind = "None"

C10_Witness ==
    /\ ct.stage = "decrypted"
    /\ ct.field = "salt"
    /\ ct.pw2 = ct.password
    /\ ct.payload = <<222>>
    /\ ct.out.kind = "None"

\* the record file of the call's name as it was at the call, parsed
FileAtCall(p) == pre[p].files[KeyFile(arg[p].name)]
RecordAtCall(p) == from_str(FileAtCall(p).content)

\* a salt, nonce or ciphertext that is no hex text, or hex of the wrong length
FieldsMalformed(rec) ==
    \/ hex_decode(rec.crypto_key.salt).kind # "Ok"
    \/ hex_decode(rec.crypto_key.nonce).kind # "Ok"
    \/ hex_decode(rec.crypto_key.ciphertext).kind # "Ok"
    \/ Len(rec.crypto_key.salt) # 2 * SaltLen
    \/ Len(rec.crypto_key.nonce) # 2 * NonceLen
    \/ Len(rec.crypto_key.ciphertext) < 2 * TagLen

\* C11: decrypt_private_key, and so retrieve_key, is total. A retrieve_key of a
\* record whose salt, nonce or ciphertext is not hex text or decodes to the
\* wrong length returns an error for every password: it never panics and never
\* returns plaintext.
C11_DecryptTotal ==
    \A p \in Procs :
        (/\ op[p] = "retrieve_key"
         /\ pc[p] \in {"done", "panicked"}
         /\ ExistedAtCall(p)
         /\ RecordAtCall(p).kind = "Ok"
         /\ FieldsMalformed(RecordAtCall(p).val))
        => /\ pc[p] = "done"
           /\ result[p].kind \notin {"Ok", "Panic"}

\* the error kind retrieve_key gives to a failed decryption
DecryptFailureKind == Decode(to_string_pretty(Genuine), <<0>>).kind

\* the call failed before decryption: nothing readable at the path, or no record in it
LoadStageFailed(p) ==
    /\ Finished(p, "retrieve_key")
    /\ Accepted(arg[p].name)
    /\ result[p].kind # "Ok"
    /\ ~ExistedAtCall(p) \/ RecordAtCall(p).kind # "Ok"

\* C12: retrieve_key reports a failed decryption with an error kind that no
\* failure of the load stage (I/O failure, malformed record, missing key) has.
C12_DistinctErrorKinds ==
    \A p \in Procs : LoadStageFailed(p) => result[p].kind # DecryptFailureKind

\* C14: KeyNotFound lifecycle. In a sequential history, a retrieve_key of a valid
\* name for which no store_key has succeeded since the start or since the last
\* successful delete_key returns KeyNotFound(name), for every password.
C14_KeyNotFoundLifecycle ==
    \A p \in Procs :
        (/\ Finished(p, "retrieve_key")
         /\ Accepted(arg[p].name)
         /\ arg[p].name \notin DOMAIN committed)
        => result[p] = Err("KeyNotFound", arg[p].name)

C14_Witness ==
    \E p \in Procs :
        /\ Finished(p, "retrieve_key")
        /\ arg[p].name \in deleted
        /\ arg[p].name \notin DOMAIN committed
        /\ result[p].kind = "KeyNotFound"

\* C15: delete_key of a valid name with no record returns KeyNotFound(name) and
\* leaves the storage as it was; with a record it returns Ok, the record is
\* gone and nothing else changed (so a second delete_key returns KeyNotFound).
C15_DeleteContract ==
    \A p \in Procs : (Finished(p, "delete_key") /\ Accepted(arg[p].name)) =>
        IF ExistedAtCall(p)
        THEN /\ result[p].kind = "Ok"
             /\ DOMAIN files = DOMAIN pre[p].files \ {KeyFile(arg[p].name)}
             /\ \A q \in DOMAIN files : files[q] = pre[p].files[q]
             /\ dirs = pre[p].dirs
        ELSE /\ result[p] = Err("KeyNotFound", arg[p].name)
             /\ StorageAsAtCall(p)

C15_Witness ==
    \E p \in Procs :
        /\ Finished(p, "delete_key")
        /\ arg[p].name \in deleted
        /\ ~ExistedAtCall(p)
        /\ result[p].kind = "KeyNotFound"

\* the file name <name>.json gives back name as its stem, for every accepted name
StemRecoversName ==
    \A n \in AllNames : Accepted(n) =>
        /\ Extension(n \o <<".">> \o JsonExt) = Some(JsonExt)
        /\ FileStem(n \o <<".">> \o JsonExt) = n

\* C16: listing. In a sequential history list_keys returns exactly the names
\* whose last successful operation was a store_key, each once, in ascending
\* order; the empty list when there is none.
C16_ListingCorrect ==
    /\ StemRecoversName
    /\ \A p \in Procs : Finished(p, "list_keys") =>
          /\ result[p].kind = "Ok"
          /\ Len(result[p].val) = Cardinality(DOMAIN committed)
          /\ {result[p].val[i] : i \in 1..Len(result[p].val)} = DOMAIN committed
          /\ \A i, j \in 1..Len(result[p].val) :
                i < j => StrLess(result[p].val[i], result[p].val[j])

C16_Witness ==
    \E p \in Procs :
        /\ Finished(p, "list_keys")
        /\ result[p].kind = "Ok"
        /\ Len(result[p].val) = 2
        /\ result[p].val[1] = <<"a">>
        /\ result[p].val[2] = <<"b">>

\* C17: key_exists is a pure query. For a valid name it returns true exactly
\* when a record of the name is stored, and files and directories are as they
\* were at the call (the storage directory is not created).
C17_KeyExistsPure ==
    \A p \in Procs : (Finished(p, "key_exists") /\ Accepted(arg[p].name)) =>
        /\ result[p].kind = "Ok"
        /\ result[p].val = (arg[p].name \in DOMAIN committed)
        /\ StorageAsAtCall(p)

C17_Witness ==
    \E p \in Procs :
        /\ Finished(p, "key_exists")
        /\ arg[p].name \in DOMAIN committed
        /\ result[p].kind = "Ok"
        /\ result[p].val = TRUE

C19_RunReturnValue ==
    run.pc = "returned" =>
        /\ (run.terminal /\ run.key = "q" /\ run.ret.kind = "Ok") => run.ret.val = TRUE
        /\ (run.ret.kind = "Ok" /\ run.ret.val = FALSE) => ~run.terminal

\* save_encrypted_key replaces whatever metadata its input carried
MetadataReplaced ==
    \A m \in {None, Some([name |-> <<"b">>, created_at |-> <<"9">>])} :
        LET r == [crypto_key |-> Genuine.crypto_key, metadata |-> m]
            w == WithMeta(r, <<"a">>, 1)
        IN  /\ w.metadata.kind = "Some"
            /\ w.metadata.val.name = <<"a">>
            /\ w.crypto_key = r.crypto_key
            /\ from_str(to_string_pretty(w)) = Ok(w)

\* C20: saved metadata. The record a successful store_key leaves on disk loads
\* as a record whose metadata is present with metadata.name the name of the
\* call and whose crypto_key is the one that was passed in, whatever metadata
\* the input carried.
C20_SavedMetadata ==
    /\ MetadataReplaced
    /\ \A p \in Procs : (Finished(p, "store_key") /\ result[p].kind = "Ok") =>
          LET r == from_str(files[KeyFile(arg[p].name)].content) IN
          /\ r.kind = "Ok"
          /\ r.val.crypto_key = loc[p].encrypted.val.crypto_key
          /\ r.val.metadata.kind = "Some"
          /\ r.val.metadata.val.name = arg[p].name

C20_Witness ==
    \E p \in Procs :
        /\ Finished(p, "store_key")
        /\ result[p].kind = "Ok"
        /\ arg[p].name = <<"b">>
        /\ from_str(files[KeyFile(<<"b">>)].content).val.metadata.val.name = <<"b">>

\* C21: owner-only permissions. Whenever save_encrypted_key (store_key) has
\* returned Ok, the record file has mode 0600 and the keys directory has mode
\* 0700, whether this call created the directory or found it.
C21_OwnerOnlyPermissions ==
    \A p \in Procs : (Finished(p, "store_key") /\ result[p].kind = "Ok") =>
        /\ KeyFile(arg[p].name) \in DOMAIN files => files[KeyFile(arg[p].name)].mode = Mode600
        /\ get_keys_dir \in DOMAIN dirs
        /\ dirs[get_keys_dir] = Mode700

\* C24: frame. From the start of a call on name n, every file other than the
\* record of n is as it was at the call (present or absent, same content and
\* mode); a finished successful store_key has added the record of n; and the
\* set of files differs from the one at the call by at most one element.
C24_OtherRecordsUntouched ==
    \A p \in Procs : pc[p] # "idle" =>
        /\ \A q \in (DOMAIN files \cup DOMAIN pre[p].files) \ {KeyFile(arg[p].name)} :
              /\ q \in DOMAIN files
              /\ q \in DOMAIN pre[p].files
              /\ files[q] = pre[p].files[q]
        /\ (Finished(p, "store_key") /\ result[p].kind = "Ok") =>
              DOMAIN files = DOMAIN pre[p].files \cup {KeyFile(arg[p].name)}
        /\ (op[p] \in {"retrieve_key", "list_keys", "key_exists"}
              \/ (Finished(p, "store_key") /\ result[p].kind # "Ok")) =>
              files = pre[p].files

C24_Witness ==
    \E p \in Procs :
        /\ Finished(p, "delete_key")
        /\ result[p].kind = "Ok"
        /\ arg[p].name = <<"a">>
        /\ KeyFile(<<"b">>) \in DOMAIN files
        /\ <<"b">> \in DOMAIN committed

\* C25: two delete_key calls on the same existing record, run concurrently:
\* one returns Ok and the other KeyNotFound(n); neither returns an IoError.
C25_ConcurrentDeletes ==
    \A p, q \in Procs :
        (/\ p # q
         /\ Finished(p, "delete_key") /\ Finished(q, "delete_key")
         /\ arg[p].name = arg[q].name
         /\ ExistedAtCall(p) /\ ExistedAtCall(q))
        => {result[p].kind, result[q].kind} = {"Ok", "KeyNotFound"}

\* C26: a retrieve_key(n, W) run concurrently with the store_key(n, P, W) that
\* creates the record of n returns KeyNotFound(n) or the plaintext P: it never
\* reads the file between its creation and the end of the write.
C26_NoHalfWrittenRecord ==
    \A p, q \in Procs :
        (/\ p # q
         /\ Finished(p, "retrieve_key")
         /\ op[q] = "store_key" /\ pc[q] # "idle"
         /\ arg[p].name = arg[q].name
         /\ arg[p].password = arg[q].password
         /\ Accepted(arg[q].name)
         /\ KeyFile(arg[q].name) \notin DOMAIN pre[q].files
         /\ arg[q].name \notin deleted)
        => \/ result[p] = Err("KeyNotFound", arg[p].name)
           \/ result[p] = Ok(arg[q].payload)

\* C27: in every state, also inside a running save_encrypted_key, every file
\* in the keys directory has mode 0600.
C27_NoWiderModeWindow ==
    \A q \in DOMAIN files : Parent(q) = get_keys_dir => files[q].mode = Mode600

\* C22: replacement by delete-then-store. Once a name has been stored, deleted
\* and stored again (payload P2, password W2), retrieve_key with W2 returns P2,
\* retrieve_key with any other password fails, and list_keys holds the name
\* exactly once: nothing of the first record shows.
C22_DeleteThenStore ==
    \A p \in Procs : \A n \in DOMAIN committed : n \in deleted =>
        /\ (Finished(p, "retrieve_key") /\ arg[p].name = n) =>
              IF arg[p].password = committed[n].password
              THEN result[p] = Ok(committed[n].payload)
              ELSE result[p].kind \notin {"Ok", "Panic"}
        /\ Finished(p, "list_keys") =>
              /\ result[p].kind = "Ok"
              /\ Cardinality({i \in 1..Len(result[p].val) : result[p].val[i] = n}) = 1

C22_Witness ==
    \E p \in Procs :
        /\ Finished(p, "retrieve_key")
        /\ arg[p].name \in deleted
        /\ arg[p].name \in DOMAIN committed
        /\ now = 4
        /\ arg[p].password = committed[arg[p].name].password
        /\ result[p] = Ok(<<222, 173>>)

\* C23: tab navigation. In every state of the running application tab_index is
\* less than the number of tab titles; next_tab advances it by one and wraps
\* from the last tab to 0, previous_tab goes back by one and wraps from 0 to
\* the last tab, each undoes the other, and after either of them current_page
\* is Page::from_index(tab_index).
C23_TabNavigation ==
    run.pc = "loop" =>
        LET n == next_tab(app)
            b == previous_tab(app)
        IN  /\ app.tab_index \in 0..(Len(titles) - 1)
            /\ n.tab_index = (IF app.tab_index = Len(titles) - 1 THEN 0 ELSE app.tab_index + 1)
            /\ b.tab_index = (IF app.tab_index = 0 THEN Len(titles) - 1 ELSE app.tab_index - 1)
            /\ previous_tab(n).tab_index = app.tab_index
            /\ next_tab(b).tab_index = app.tab_index
            /\ n.current_page = from_index(n.tab_index)
            /\ b.current_page = from_index(b.tab_index)
            /\ run.key \in {"Right", "Tab", "Left"} => app.current_page = from_index(app.tab_index)

C23_Witness ==
    /\ run.pc = "loop"
    /\ run.key = "Left"
    /\ app.tab_index = 3
    /\ app.current_page = Page("Network")

\* C28: process-table selection. Whatever Up, Down and Enter keys were pressed
\* and however the process list changed between draws (empty, shorter), the
\* selected row is an index into the list whenever the Processes page is drawn:
\* looking up the selected process never goes out of bounds.
C28_SelectionInBounds == run.pc # "panicked"

\* C29: with history storage enabled, the history held by SystemCollector
\* never has more than MAX_HISTORY entries, and once it is full a collect
\* drops the oldest entry and appends the newest.
C29_HistoryBounded ==
    (collector.pc = "ready" /\ collector.system_metrics.kind = "History") =>
        LET h == collector.system_metrics.val
        IN /\ Len(h) <= MAX_HISTORY
           /\ (collector.collects > 0 /\ Len(collector.before) = MAX_HISTORY) =>
                  /\ SubSeq(h, 1, Len(h) - 1) = Tail(collector.before)
                  /\ h[Len(h)].timestamp = collector.collects

\* C30: a Ring never holds more than N elements; a call on a full ring drops
\* the oldest element and appends one at the back, leaving the others in
\* order; push appends the value given, push_clamped a value no greater.
C30_RingBounded ==
    /\ Len(ring.inner) <= RingN
    /\ ring.last # "none" =>
          /\ ring.inner # <<>>
          /\ SubSeq(ring.inner, 1, Len(ring.inner) - 1) =
                 (IF Len(ring.prev) = RingN THEN Tail(ring.prev) ELSE ring.prev)
          /\ ring.last = "push" => ring.inner[Len(ring.inner)] = ring.given
          /\ ring.last = "push_clamped" => ring.inner[Len(ring.inner)] <= ring.given

C30_Witness ==
    /\ ring.last = "push_clamped"
    /\ Len(ring.prev) = RingN
    /\ ring.prev[1] # ring.prev[2]
    /\ ring.inner[Len(ring.inner)] < ring.given

====
